---- MODULE Spec2Model ----
(***************************************************************************)
(* Trace consolidation and merge engine of plot_micro.py: record coercion, *)
(* duration filter, adjacent consolidation by owner, gap-tolerant grouped  *)
(* merging and the stacking-level assignment.                              *)
(*                                                                         *)
(* A DataFrame is [cols, rows]: cols is the set of optional columns that   *)
(* are present (start_ns and end_ns always are), rows a sequence of        *)
(* records.  A cell of an absent column, and a pandas NaN, is NA.          *)
(*                                                                         *)
(* pandas' sort_values is called everywhere with its default kind          *)
(* ("quicksort"), which is documented as not stable: the order of rows     *)
(* with equal start_ns after a sort is any order.                          *)
(***************************************************************************)
EXTENDS Integers, Sequences, FiniteSets

VARIABLES csv, df, max_duration_ns, df_filtered, df_merged, arrival_stack,
          merge_gap_ns, ms_out, ms_again, pc

vars == <<csv, df, max_duration_ns, df_filtered, df_merged, arrival_stack,
          merge_gap_ns, ms_out, ms_again, pc>>

----------------------------------------------------------------------------
(* Bounds of the model *)

MaxRows == 3
MaxTime == 3

Pids == 1..2
Children == 1..2
Times == 0..MaxTime
EndTimes == 0..(MaxTime + 1)
Gaps == 0..1
MaxDurations == 1..2

----------------------------------------------------------------------------
(* Values *)

\* NaN / pd.NA: a missing cell
NA == -1000
\* a CSV cell that is not a number (text, or empty)
NonNumeric == NA - 1
\* max_duration_ns=None
None == NA - 2
\* the value merge_slices fills a missing arrive_ns with
Sentinel == -1

FullCols == {"pid", "child_index", "arrive_ns", "duration_ns"}

Row(p, c, a, s, e, d) ==
    [pid |-> p, child_index |-> c, arrive_ns |-> a,
     start_ns |-> s, end_ns |-> e, duration_ns |-> d]

Frame(cols, rows) == [cols |-> cols, rows |-> rows]

EmptyFrame == Frame({}, <<>>)

Max(a, b) == IF a >= b THEN a ELSE b

\* end - start on a column: NaN when either side is NaN
Sub(a, b) == IF a = NA \/ b = NA THEN NA ELSE a - b

\* a <= b on a column: a comparison with NaN is False
Le(a, b) == a # NA /\ b # NA /\ a <= b

RangeOf(s) == {s[i] : i \in 1..Len(s)}

\* the orders sort_values("start_ns") can leave the rows in: any
\* permutation in which start_ns never decreases
SortedPerms(rows) ==
    LET n == Len(rows)
        perms == {f \in [1..n -> 1..n] : \A i, j \in 1..n : i # j => f[i] # f[j]}
        sorted == {f \in perms :
                     \A i \in 1..n : i < n => rows[f[i]].start_ns <= rows[f[i + 1]].start_ns}
    IN  {[i \in 1..n |-> rows[f[i]]] : f \in sorted}

----------------------------------------------------------------------------
(* The traces the model reads *)

\* the elements of a finite set, in some order
RECURSIVE SetToSeq(_)
SetToSeq(S) ==
    IF S = {} THEN <<>>
    ELSE LET x == CHOOSE y \in S : TRUE IN <<x>> \o SetToSeq(S \ {x})

\* the files of at most MaxRows rows drawn from U, each multiset of rows once
\* (every stage sorts before it reads the rows, so their order in the file
\* does not matter)
\* the sequences of k indices in 1..n that never decrease
RECURSIVE NonDecreasing(_, _)
NonDecreasing(n, k) ==
    IF k = 0 THEN {<<>>}
    ELSE UNION {{Append(q, i) : i \in (IF Len(q) = 0 THEN 1 ELSE q[Len(q)])..n} :
                  q \in NonDecreasing(n, k - 1)}

Traces(cols, U) ==
    LET u == SetToSeq(U)
        canonical == UNION {NonDecreasing(Len(u), k) : k \in 0..MaxRows}
    IN  {Frame(cols, [j \in 1..Len(q) |-> u[q[j]]]) : q \in canonical}

\* scheduler traces: one entity per process, no arrival known, any pair of
\* start and end (inverted and empty intervals included), consistent duration
SchedRows ==
    {Row(p, p, NonNumeric, s, e, e - s) : p \in Pids, s \in Times, e \in EndTimes}

\* unit microslices of several entities, with known, missing (and -1) arrivals
ArriveRows ==
    {Row(id[1], id[2], a, s, s + 1, 1) :
        id \in {x \in Pids \X Children : x[1] <= x[2]},
        a \in {NonNumeric, Sentinel, 1}, s \in Times}

\* rows with a missing timing field, and with a stated duration that may be
\* missing or differ from end - start
DurValues(cols) == IF "duration_ns" \in cols THEN {NonNumeric, 1, 2} ELSE {NA}

DurRows(cols) ==
    {Row(IF "pid" \in cols THEN p ELSE NA,
         IF "child_index" \in cols THEN p ELSE NA,
         IF "arrive_ns" \in cols THEN NonNumeric ELSE NA, s, e, d) :
        p \in {1}, s \in {NonNumeric, 0, 1}, e \in {NonNumeric, 2},
        d \in DurValues(cols)}

DurSchemas ==
    {FullCols, FullCols \ {"duration_ns"}, FullCols \ {"pid"},
     {"arrive_ns", "duration_ns"}, {"duration_ns"}}

InputTraces ==
    Traces(FullCols, SchedRows) \cup Traces(FullCols, ArriveRows)
    \cup UNION {Traces(cols, DurRows(cols)) : cols \in DurSchemas}

----------------------------------------------------------------------------
(* read_and_coerce *)

\* pd.to_numeric(errors="coerce")
ToNumeric(v) == IF v = NonNumeric THEN NA ELSE v

CoerceRow(r, cols) ==
    LET s == ToNumeric(r.start_ns)
        e == ToNumeric(r.end_ns)
    IN  [r EXCEPT !.arrive_ns = ToNumeric(r.arrive_ns),
                  !.start_ns = s,
                  !.end_ns = e,
                  !.duration_ns = IF "duration_ns" \in cols
                                  THEN ToNumeric(r.duration_ns)
                                  ELSE Sub(e, s)]

HasStartEnd(r) == r.start_ns # NA /\ r.end_ns # NA

\* the frames read_and_coerce can return for a file
ReadAndCoerceOutcomes(file) ==
    LET coerced == [i \in 1..Len(file.rows) |-> CoerceRow(file.rows[i], file.cols)]
        kept == SelectSeq(coerced, HasStartEnd)
    IN  {Frame(file.cols \cup {"duration_ns"}, q) : q \in SortedPerms(kept)}

----------------------------------------------------------------------------
(* prepare_data: the duration filter *)

Retained(r, max_duration) == Le(r.duration_ns, max_duration)

\* a filter that removes no row
DurationFilterKeepAll(d, max_duration) ==
    IF max_duration = None THEN d
    ELSE Frame(d.cols \cup {"duration_ns"},
               IF "duration_ns" \in d.cols THEN d.rows
               ELSE [i \in 1..Len(d.rows) |->
                       [d.rows[i] EXCEPT !.duration_ns =
                           Sub(d.rows[i].end_ns, d.rows[i].start_ns)]])

DurationFilter(d, max_duration) ==
    IF max_duration = None THEN d
    ELSE LET withDur == IF "duration_ns" \in d.cols THEN d.rows
                        ELSE [i \in 1..Len(d.rows) |->
                                [d.rows[i] EXCEPT !.duration_ns =
                                    Sub(d.rows[i].end_ns, d.rows[i].start_ns)]]
             keep(r) == Retained(r, max_duration)
         IN  Frame(d.cols \cup {"duration_ns"}, SelectSeq(withDur, keep))

----------------------------------------------------------------------------
(* consolidate_adjacent_by_pid *)

\* the column the runs are keyed by: pid, else child_index, else none
OwnerColumn(cols) ==
    IF "pid" \in cols THEN "pid"
    ELSE IF "child_index" \in cols THEN "child_index"
    ELSE "none"

Owner(r, pid_col) == IF pid_col = "pid" THEN r.pid ELSE r.child_index

\* cur_pid == pid (a NaN equals nothing)
SameOwner(cur, r, pid_col) ==
    Owner(cur, pid_col) # NA /\ Owner(cur, pid_col) = Owner(r, pid_col)

\* a scan that keeps the run open across another owner's row
ConsolidateStepAcross(st, r, pid_col) ==
    IF Len(st.cur) = 0
    THEN [cur |-> <<r>>, merged |-> st.merged]
    ELSE IF SameOwner(st.cur[1], r, pid_col)
         THEN [cur |-> <<[st.cur[1] EXCEPT !.end_ns = Max(st.cur[1].end_ns, r.end_ns)]>>,
               merged |-> st.merged]
         ELSE [cur |-> st.cur, merged |-> Append(st.merged, r)]

\* a scan that gives the run the end of its last row
ConsolidateStepLastEnd(st, r, pid_col) ==
    IF Len(st.cur) = 0
    THEN [cur |-> <<r>>, merged |-> st.merged]
    ELSE IF SameOwner(st.cur[1], r, pid_col)
         THEN [cur |-> <<[st.cur[1] EXCEPT !.end_ns = r.end_ns]>>,
               merged |-> st.merged]
         ELSE [cur |-> <<r>>, merged |-> Append(st.merged, st.cur[1])]

\* the pending run: <<>> for None, else <<cur>>
ConsolidateStep(st, r, pid_col) ==
    IF Len(st.cur) = 0
    THEN [cur |-> <<r>>, merged |-> st.merged]
    ELSE IF SameOwner(st.cur[1], r, pid_col)
         THEN [cur |-> <<[st.cur[1] EXCEPT !.end_ns = Max(st.cur[1].end_ns, r.end_ns)]>>,
               merged |-> st.merged]
         ELSE [cur |-> <<r>>, merged |-> Append(st.merged, st.cur[1])]

\* the loop's state after the first k rows of dfe
RECURSIVE ConsolidateScan(_, _, _)
ConsolidateScan(dfe, k, pid_col) ==
    IF k = 0 THEN [cur |-> <<>>, merged |-> <<>>]
    ELSE ConsolidateStep(ConsolidateScan(dfe, k - 1, pid_col), dfe[k], pid_col)

ConsolidateFlush(st) == st.merged \o st.cur

\* the run left with its first row's duration
KeepDuration(r) == r

RecomputeDuration(r) == [r EXCEPT !.duration_ns = Sub(r.end_ns, r.start_ns)]

\* the frames consolidate_adjacent_by_pid can return
ConsolidateOutcomes(d) ==
    IF Len(d.rows) = 0 \/ OwnerColumn(d.cols) = "none" THEN {d}
    ELSE LET pid_col == OwnerColumn(d.cols)
             runs(dfe) == ConsolidateFlush(ConsolidateScan(dfe, Len(dfe), pid_col))
             out(dfe) == [i \in 1..Len(runs(dfe)) |-> RecomputeDuration(runs(dfe)[i])]
         IN  {Frame(d.cols \cup {"duration_ns"}, q) :
                q \in UNION {SortedPerms(out(dfe)) : dfe \in SortedPerms(d.rows)}}

\* prepare_data, after consolidation: a frame without child_index gets the
\* pid column (or zeros) as child_index
FillChildIndex(d) ==
    IF "child_index" \in d.cols THEN d
    ELSE Frame(d.cols \cup {"child_index"},
               [i \in 1..Len(d.rows) |->
                  [d.rows[i] EXCEPT !.child_index =
                      IF "pid" \in d.cols THEN d.rows[i].pid ELSE 0]])

\* prepare_data with the filter applied once more to the consolidated frame
PreparedFramesRefiltered(d, max_duration) ==
    {FillChildIndex(DurationFilter(out, max_duration)) : out \in ConsolidateOutcomes(d)}

\* what prepare_data can return for the filtered frame: the consolidated
\* frame; max_duration_ns is not applied again
PreparedFrames(d, max_duration) ==
    {FillChildIndex(out) : out \in ConsolidateOutcomes(d)}

----------------------------------------------------------------------------
(* plot_1d_gantt: the stack levels *)

ArriveOrStart(r, cols) ==
    IF "arrive_ns" \in cols /\ r.arrive_ns # NA THEN r.arrive_ns ELSE r.start_ns

\* groupby("child_index"): the entities (a NaN key forms no group)
Entities(d) == {d.rows[i].child_index : i \in 1..Len(d.rows)} \ {NA}

SetMin(S) == CHOOSE m \in S : \A x \in S : m <= x

\* arrival_series: the minimum of arrive_or_start over an entity's intervals
ArrivalSeries(d, cid) ==
    SetMin({ArriveOrStart(d.rows[i], d.cols) :
              i \in {j \in 1..Len(d.rows) : d.rows[j].child_index = cid}})

\* arrival_series.sort_values().index.tolist(): the entities by arrival,
\* entities of equal arrival in any order
ArrivalOrders(d) ==
    LET E == Entities(d)
        n == Cardinality(E)
    IN  {o \in [1..n -> E] :
           /\ \A i, j \in 1..n : i # j => o[i] # o[j]
           /\ \A i \in 1..n : i < n =>
                 ArrivalSeries(d, o[i]) <= ArrivalSeries(d, o[i + 1])}

\* arrival_stack = {cid: idx for idx, cid in enumerate(arrival_order)}
ArrivalStacks(d) ==
    IF Len(d.rows) = 0 THEN {<<>>}
    ELSE {[cid \in Entities(d) |-> (CHOOSE i \in 1..Len(o) : o[i] = cid) - 1] :
            o \in ArrivalOrders(d)}

----------------------------------------------------------------------------
(* merge_slices *)

FillSentinel(a) == IF a = NA THEN Sentinel ELSE a

RestoreSentinel(a) == IF a = Sentinel THEN NA ELSE a

\* the group key of a row: the values of the key columns that are present
GroupKey(r, cols) ==
    <<IF "pid" \in cols THEN r.pid ELSE 0,
      IF "child_index" \in cols THEN r.child_index ELSE 0,
      IF "arrive_ns" \in cols THEN r.arrive_ns ELSE 0>>

\* groupby drops the rows with a NaN in a key column (arrive_ns is filled)
HasKeyIn(r, cols) ==
    /\ "pid" \in cols => r.pid # NA
    /\ "child_index" \in cols => r.child_index # NA

\* the distinct keys, in order of first appearance (sort=False)
RECURSIVE GroupKeys(_, _)
GroupKeys(rows, cols) ==
    IF Len(rows) = 0 THEN <<>>
    ELSE LET n == Len(rows)
             before == GroupKeys(SubSeq(rows, 1, n - 1), cols)
             key == GroupKey(rows[n], cols)
         IN  IF HasKeyIn(rows[n], cols) /\ key \notin RangeOf(before)
             THEN Append(before, key) ELSE before

\* the merge test without the tolerance
ShouldMergeNoGap(s, prev_end, gap) == s <= prev_end

\* the merge test with the boundary excluded
ShouldMergeStrict(s, prev_end, gap) == s < prev_end + gap

\* s <= prev_end + merge_gap_ns
ShouldMerge(s, prev_end, gap) == s <= prev_end + gap

\* e <= s: an inverted or empty interval, skipped
Inverted(r) == r.end_ns <= r.start_ns

\* a scan that gives the pending slice the end of the row it merges
MergeStepLastEnd(st, r, gap) ==
    IF Inverted(r) THEN st
    ELSE IF Len(st.cur) = 0
    THEN [cur |-> <<r>>, merged_rows |-> st.merged_rows]
    ELSE LET prev_end == st.cur[1].end_ns
         IN  IF ShouldMerge(r.start_ns, prev_end, gap)
             THEN [cur |-> <<[st.cur[1] EXCEPT !.end_ns = r.end_ns]>>,
                   merged_rows |-> st.merged_rows]
             ELSE [cur |-> <<r>>, merged_rows |-> Append(st.merged_rows, st.cur[1])]

MergeStep(st, r, gap) ==
    IF Inverted(r) THEN st
    ELSE IF Len(st.cur) = 0
    THEN [cur |-> <<r>>, merged_rows |-> st.merged_rows]
    ELSE LET prev_end == st.cur[1].end_ns
         IN  IF ShouldMerge(r.start_ns, prev_end, gap)
             THEN [cur |-> <<[st.cur[1] EXCEPT !.end_ns = Max(prev_end, r.end_ns)]>>,
                   merged_rows |-> st.merged_rows]
             ELSE [cur |-> <<r>>, merged_rows |-> Append(st.merged_rows, st.cur[1])]

\* the inner loop's state after the first k rows of group g
RECURSIVE MergeScan(_, _, _)
MergeScan(g, k, gap) ==
    IF k = 0 THEN [cur |-> <<>>, merged_rows |-> <<>>]
    ELSE MergeStep(MergeScan(g, k - 1, gap), g[k], gap)

\* the loop's result without the last pending slice
MergeFlushDropped(st) == st.merged_rows

\* finalize group's last pending slice
MergeFlush(st) == st.merged_rows \o st.cur

GroupRows(rows, cols, key) ==
    LET in(r) == HasKeyIn(r, cols) /\ GroupKey(r, cols) = key
    IN  SelectSeq(rows, in)

\* what one group can append to merged_rows
GroupOutcomes(rows, cols, key, gap) ==
    {MergeFlush(MergeScan(g, Len(g), gap)) : g \in SortedPerms(GroupRows(rows, cols, key))}

\* merged_rows after the groups keys[1..k]
RECURSIVE MergedRows(_, _, _, _, _)
MergedRows(rows, cols, keys, k, gap) ==
    IF k = 0 THEN {<<>>}
    ELSE {a \o b : a \in MergedRows(rows, cols, keys, k - 1, gap),
                   b \in GroupOutcomes(rows, cols, keys[k], gap)}

FinishMerged(r, cols) ==
    [r EXCEPT !.duration_ns = Sub(r.end_ns, r.start_ns),
              !.arrive_ns = IF "arrive_ns" \in cols THEN RestoreSentinel(r.arrive_ns)
                            ELSE r.arrive_ns]

\* group_keys: the key columns that are present
KeyColumns(cols) == cols \cap {"pid", "child_index", "arrive_ns"}

\* dfw: the working copy, arrive_ns filled
WorkingRows(d) ==
    IF "arrive_ns" \in d.cols
    THEN [i \in 1..Len(d.rows) |->
            [d.rows[i] EXCEPT !.arrive_ns = FillSentinel(d.rows[i].arrive_ns)]]
    ELSE d.rows

\* the frames merge_slices can return
MergeSlicesOutcomes(d, gap) ==
    LET dfw == WorkingRows(d)
        keys == GroupKeys(dfw, d.cols)
        all == MergedRows(dfw, d.cols, keys, Len(keys), gap)
        finish(m) == [i \in 1..Len(m) |-> FinishMerged(m[i], d.cols)]
    IN  IF KeyColumns(d.cols) = {}
        THEN {Frame(d.cols, dfw)}
        ELSE UNION {IF Len(m) = 0 THEN {Frame(d.cols, <<>>)}
                    ELSE {Frame(d.cols \cup {"duration_ns"}, q) :
                            q \in SortedPerms(finish(m))} : m \in all}

----------------------------------------------------------------------------

Init ==
    /\ csv \in InputTraces
    /\ df = EmptyFrame
    /\ max_duration_ns = None
    /\ df_filtered = EmptyFrame
    /\ df_merged = EmptyFrame
    /\ arrival_stack = <<>>
    /\ merge_gap_ns = 0
    /\ ms_out = EmptyFrame
    /\ ms_again = EmptyFrame
    /\ pc = "read"

ReadAndCoerce ==
    /\ pc = "read"
    /\ df' \in ReadAndCoerceOutcomes(csv)
    /\ pc' = "coerced"
    /\ UNCHANGED <<csv, max_duration_ns, df_filtered, df_merged, arrival_stack,
                   merge_gap_ns, ms_out, ms_again>>

\* prepare_data, lines 203-208
FilterDurations ==
    /\ pc = "coerced"
    /\ \E m \in MaxDurations \cup {None} :
         /\ max_duration_ns' = m
         /\ df_filtered' = DurationFilter(df, m)
    /\ pc' = "filtered"
    /\ UNCHANGED <<csv, df, df_merged, arrival_stack, merge_gap_ns, ms_out, ms_again>>

\* prepare_data, lines 217-224: its return value df_merged
Consolidate ==
    /\ pc = "filtered"
    /\ df_merged' \in PreparedFrames(df_filtered, max_duration_ns)
    /\ pc' = "prepared"
    /\ UNCHANGED <<csv, df, max_duration_ns, df_filtered, arrival_stack,
                   merge_gap_ns, ms_out, ms_again>>

\* plot_1d_gantt, lines 337-350
AssignStack ==
    /\ pc = "prepared"
    /\ arrival_stack' \in ArrivalStacks(df_merged)
    /\ pc' = "stacked"
    /\ UNCHANGED <<csv, df, max_duration_ns, df_filtered, df_merged,
                   merge_gap_ns, ms_out, ms_again>>

\* merge_slices on a coerced frame
MergeSlices ==
    /\ pc = "coerced"
    /\ \E gap \in Gaps :
         /\ merge_gap_ns' = gap
         /\ ms_out' \in MergeSlicesOutcomes(df, gap)
    /\ pc' = "merged"
    /\ UNCHANGED <<csv, df, max_duration_ns, df_filtered, df_merged, arrival_stack,
                   ms_again>>

\* merge_slices on its own output, with the same merge_gap_ns
MergeSlicesAgain ==
    /\ pc = "merged"
    /\ ms_again' \in MergeSlicesOutcomes(ms_out, merge_gap_ns)
    /\ pc' = "remerged"
    /\ UNCHANGED <<csv, df, max_duration_ns, df_filtered, df_merged, arrival_stack,
                   merge_gap_ns, ms_out>>

Next ==
    \/ ReadAndCoerce
    \/ FilterDurations
    \/ Consolidate
    \/ AssignStack
    \/ MergeSlices
    \/ MergeSlicesAgain

Spec == Init /\ [][Next]_vars

----------------------------------------------------------------------------
(* Properties of merge_slices *)

SameGroup(a, b) ==
    a.pid = b.pid /\ a.child_index = b.child_index /\ a.arrive_ns = b.arrive_ns

Valid(r) == r.start_ns < r.end_ns

Merged == pc \in {"merged", "remerged"}

\* C1: in the output of merge_slices (on a frame with a grouping column) no
\* two intervals of one group are within merge_gap_ns: of two intervals with
\* the same pid, child_index and arrive_ns, the one that starts later starts
\* after the other's end_ns + merge_gap_ns, so they do not overlap either.
C1_NoPairWithinGap ==
    (Merged /\ KeyColumns(df.cols) # {}) =>
        \A i, j \in 1..Len(ms_out.rows) :
            LET a == ms_out.rows[i]
                b == ms_out.rows[j]
            IN  (i # j /\ SameGroup(a, b) /\ a.start_ns <= b.start_ns) =>
                    /\ b.start_ns > a.end_ns + merge_gap_ns
                    /\ a.end_ns <= b.start_ns

\* a group of three valid rows comes out as two intervals: one merge, one gap
C1_Witness ==
    /\ pc = "merged"
    /\ Len(df.rows) = 3
    /\ \A i \in 1..3 : Valid(df.rows[i]) /\ SameGroup(df.rows[i], df.rows[1])
    /\ Len(ms_out.rows) = 2
    /\ merge_gap_ns > 0

\* C4: merge_slices applied to its own output with the same merge_gap_ns
\* returns the same intervals (all six fields), as many as before.
C4_Idempotent ==
    pc = "remerged" =>
        /\ RangeOf(ms_again.rows) = RangeOf(ms_out.rows)
        /\ Len(ms_again.rows) = Len(ms_out.rows)

\* the first pass merged something and left several intervals
C4_Witness ==
    /\ pc = "remerged"
    /\ KeyColumns(df.cols) # {}
    /\ Len(ms_out.rows) >= 2
    /\ Len(ms_out.rows) < Len(df.rows)
    /\ \E i \in 1..Len(ms_out.rows) : ms_out.rows[i].arrive_ns = NA

\* the scan steps merge_slices can take on frame d: for a group in one of its
\* sorted orders, the state before a row, the row, and the state after it
ScanSteps(d, gap) ==
    LET dfw == WorkingRows(d)
        keys == GroupKeys(dfw, d.cols)
    IN  UNION {
          UNION {
            {[before |-> MergeScan(g, k - 1, gap), row |-> g[k],
              after |-> MergeScan(g, k, gap)] : k \in 1..Len(g)} :
            g \in SortedPerms(GroupRows(dfw, d.cols, keys[n]))} :
          n \in 1..Len(keys)}

\* the steps that read a valid record while an interval is pending
PendingSteps(d, gap) ==
    {x \in ScanSteps(d, gap) : Len(x.before.cur) = 1 /\ ~Inverted(x.row)}

\* C5: in the scan of a group, a valid record is merged into the pending
\* interval (which keeps its start and takes the larger end, nothing being
\* emitted) exactly when its start_ns <= pending.end_ns + merge_gap_ns;
\* otherwise the pending interval is emitted and the record becomes the
\* pending interval.  So a start at end + gap merges, at end + gap + 1 not.
C5_GapBoundary ==
    (Merged /\ KeyColumns(df.cols) # {}) =>
        \A x \in PendingSteps(df, merge_gap_ns) :
            LET pending == x.before.cur[1]
                now == x.after.cur[1]
            IN  IF x.row.start_ns <= pending.end_ns + merge_gap_ns
                THEN /\ x.after.merged_rows = x.before.merged_rows
                     /\ now.start_ns = pending.start_ns
                     /\ now.end_ns = Max(pending.end_ns, x.row.end_ns)
                ELSE /\ x.after.merged_rows = Append(x.before.merged_rows, pending)
                     /\ now.start_ns = x.row.start_ns
                     /\ now.end_ns = x.row.end_ns

\* one scan meets both boundary cases: a record merged at exactly
\* end + gap, and a record at end + gap + 1 that starts a new interval
C5_Witness ==
    /\ pc = "merged"
    /\ \E x \in PendingSteps(df, merge_gap_ns) :
          x.row.start_ns = x.before.cur[1].end_ns + merge_gap_ns
    /\ \E x \in PendingSteps(df, merge_gap_ns) :
          x.row.start_ns = x.before.cur[1].end_ns + merge_gap_ns + 1
----------------------------------------------------------------------------
(* Properties of prepare_data and of the stack levels *)

Prepared == pc \in {"prepared", "stacked"}

Filtered == pc \in {"filtered", "prepared", "stacked"}

Coerced == pc # "read"

\* the column consolidate_adjacent_by_pid keyed the runs by
RunColumn == OwnerColumn(df_filtered.cols)

DurationOk(r) == r.duration_ns = r.end_ns - r.start_ns

AllRows(d, P(_)) == \A i \in 1..Len(d.rows) : P(d.rows[i])

\* C2: in the consolidated output, read in its final order, no two
\* consecutive intervals have the same owner key.
C2_OwnerAlternation ==
    (Prepared /\ RunColumn # "none") =>
        \A i \in 1..Len(df_merged.rows) : i < Len(df_merged.rows) =>
            Owner(df_merged.rows[i], RunColumn) # Owner(df_merged.rows[i + 1], RunColumn)

\* C3 as stated: at every stage every interval has
\* duration_ns = end_ns - start_ns.
C3_DurationEverywhere ==
    /\ Coerced => AllRows(df, DurationOk)
    /\ Filtered => AllRows(df_filtered, DurationOk)
    /\ Prepared => AllRows(df_merged, DurationOk)
    /\ Merged => AllRows(ms_out, DurationOk)

\* the row of the file that coerced row r comes from, cell by cell
FromFile(r) ==
    \E i \in 1..Len(csv.rows) :
        /\ r.pid = csv.rows[i].pid
        /\ r.child_index = csv.rows[i].child_index
        /\ r.arrive_ns = ToNumeric(csv.rows[i].arrive_ns)
        /\ r.start_ns = ToNumeric(csv.rows[i].start_ns)
        /\ r.end_ns = ToNumeric(csv.rows[i].end_ns)
        /\ r.duration_ns = ToNumeric(csv.rows[i].duration_ns)

\* C3 as amended: duration_ns = end_ns - start_ns holds of every interval the
\* consolidator's scan emits (a frame with rows and an owner column) and of
\* every interval merge_slices emits (a frame with a grouping column),
\* whatever duration the input rows state, and of every coerced or filtered
\* row when the file has no duration_ns column; when the file has one,
\* coercion and the filter hand on the file's duration cell as it is, and the
\* passthrough paths of both merges return their input unchanged.
C3_DurationWhereRecomputed ==
    /\ (Prepared /\ RunColumn # "none") => AllRows(df_merged, DurationOk)
    /\ (Merged /\ KeyColumns(df.cols) # {}) => AllRows(ms_out, DurationOk)
    /\ (Coerced /\ "duration_ns" \notin csv.cols) => AllRows(df, DurationOk)
    /\ (Filtered /\ "duration_ns" \notin csv.cols) => AllRows(df_filtered, DurationOk)
    /\ (Coerced /\ "duration_ns" \in csv.cols) => AllRows(df, FromFile)
    /\ Filtered => RangeOf(df_filtered.rows) \subseteq RangeOf(df.rows)
    /\ (Prepared /\ RunColumn = "none") => df_merged = FillChildIndex(df_filtered)
    /\ (Merged /\ KeyColumns(df.cols) = {}) => ms_out = df

\* the consolidator merges rows whose stated duration is not end - start
C3_Witness ==
    /\ pc = "prepared"
    /\ RunColumn # "none"
    /\ Len(df_filtered.rows) >= 2
    /\ \A i \in 1..Len(df_filtered.rows) : ~DurationOk(df_filtered.rows[i])
    /\ Len(df_merged.rows) = 1

\* C6: no record with start_ns >= end_ns reaches the consolidator's scan,
\* and none is in its output.
C6_InvalidDroppedBeforeMerge ==
    Prepared => AllRows(df_filtered, Valid) /\ AllRows(df_merged, Valid)

\* the duration the claim judges a row by: end - start when it states none
JudgedDuration(r) == IF r.duration_ns = NA THEN r.end_ns - r.start_ns ELSE r.duration_ns

\* C7: the filter retains exactly the rows with duration <= max_duration_ns,
\* a row that states no duration being judged by end_ns - start_ns; with
\* max_duration_ns unset it retains every row.
C7_FilterContract ==
    Filtered =>
        LET keep(r) == max_duration_ns = None \/ JudgedDuration(r) <= max_duration_ns
        IN  df_filtered.rows = SelectSeq(df.rows, keep)

MinStart(d) == SetMin({d.rows[i].start_ns : i \in 1..Len(d.rows)})

MaxEnd(d) == -SetMin({-d.rows[i].end_ns : i \in 1..Len(d.rows)})

\* the rows of the coerced frame all have one owner and a duration within
\* max_duration_ns
OneOwnerAllRetained ==
    /\ Len(df.rows) > 0
    /\ \A i \in 1..Len(df.rows) :
          /\ Retained(df.rows[i], max_duration_ns)
          /\ SameOwner(df.rows[1], df.rows[i], RunColumn)

\* an interval of the output that has the row's owner and spans the row
CoveredByOutput(r) ==
    \E i \in 1..Len(df_merged.rows) :
        /\ Owner(df_merged.rows[i], RunColumn) = Owner(r, RunColumn)
        /\ df_merged.rows[i].start_ns <= r.start_ns
        /\ r.end_ns <= df_merged.rows[i].end_ns

C9_StackLevels ==
    (pc = "stacked" /\ Len(df_merged.rows) > 0) =>
        \A cid \in Entities(df_merged) :
            arrival_stack[cid] =
                Cardinality({o \in Entities(df_merged) :
                    \/ ArrivalSeries(df_merged, o) < ArrivalSeries(df_merged, cid)
                    \/ /\ ArrivalSeries(df_merged, o) = ArrivalSeries(df_merged, cid)
                       /\ o < cid})

NonOverlapping(d) ==
    \A i, j \in 1..Len(d.rows) :
        i # j => \/ d.rows[i].end_ns <= d.rows[j].start_ns
                 \/ d.rows[j].end_ns <= d.rows[i].start_ns

\* C10 as stated: the intervals prepare_data returns never overlap.
C10_OutputNonOverlapping == Prepared => NonOverlapping(df_merged)

\* C10 as amended: the intervals prepare_data returns are pairwise
\* non-overlapping when the rows the duration filter retains have
\* start_ns < end_ns and are pairwise non-overlapping (one process runs at a
\* time); consolidation does not create an overlap, and removes none.
C10_NonOverlappingPreserved ==
    (Prepared /\ AllRows(df_filtered, Valid) /\ NonOverlapping(df_filtered)) =>
        NonOverlapping(df_merged)

\* runs of two owners alternate, and one of them merged two rows
C10_Witness ==
    /\ pc = "prepared"
    /\ NonOverlapping(df_filtered)
    /\ AllRows(df_filtered, Valid)
    /\ Len(df_filtered.rows) = 3
    /\ Len(df_merged.rows) = 2

----------------------------------------------------------------------------
(* The runs of the consolidator *)

\* the positions of seq at which a run starts: the first, and every row
\* whose owner is not the owner of the row before it
RunStarts(seq, col) ==
    {i \in 1..Len(seq) :
        i = 1 \/ Owner(seq[i - 1], col) = NA
              \/ Owner(seq[i - 1], col) # Owner(seq[i], col)}

\* the last position of the run that starts at position i
RunLast(seq, col, i) ==
    CHOOSE j \in i..Len(seq) :
        /\ \A k \in (i + 1)..j : k \notin RunStarts(seq, col)
        /\ j = Len(seq) \/ (j + 1) \in RunStarts(seq, col)

\* the interval of the run that starts at position i: the first row, with
\* the greatest end_ns of the run and the duration of that span
RunInterval(seq, col, i) ==
    LET last == RunLast(seq, col, i)
        e == CHOOSE x \in {seq[k].end_ns : k \in i..last} :
                 \A k \in i..last : seq[k].end_ns <= x
    IN  [seq[i] EXCEPT !.end_ns = e, !.duration_ns = e - seq[i].start_ns]

\* a and b hold the same rows, each as many times
SameRows(a, b) ==
    /\ Len(a) = Len(b)
    /\ \E f \in [1..Len(a) -> 1..Len(a)] :
          /\ \A i, j \in 1..Len(a) : i # j => f[i] # f[j]
          /\ \A i \in 1..Len(a) : a[i] = b[f[i]]

\* one interval per run of seq, in the order of the runs
RunIntervals(seq, col) ==
    LET starts == RunStarts(seq, col)
        nth(n) == CHOOSE i \in starts : Cardinality({j \in starts : j <= i}) = n
    IN  [n \in 1..Cardinality(starts) |-> RunInterval(seq, col, nth(n))]

\* the rows are in an order in which start_ns never decreases
ByStart(rows) ==
    \A i \in 1..Len(rows) : i < Len(rows) => rows[i].start_ns <= rows[i + 1].start_ns

\* C11: the consolidator (on a frame with rows and an owner column) emits
\* exactly one interval per maximal run of consecutive same-owner rows of
\* its input read in start_ns order (rows of equal start_ns in one of their
\* orders), whatever the gap between the rows: the interval has the pid,
\* child_index, arrive_ns and start_ns of the run's first row, the greatest
\* end_ns of the run, and the duration of that span; the intervals come out
\* ordered by start_ns.
C11_OneIntervalPerRun ==
    (Prepared /\ RunColumn # "none" /\ Len(df_filtered.rows) > 0) =>
        /\ ByStart(df_merged.rows)
        /\ \E seq \in {q \in [1..Len(df_filtered.rows) -> RangeOf(df_filtered.rows)] :
                          SameRows(q, df_filtered.rows) /\ ByStart(q)} :
              SameRows(df_merged.rows, RunIntervals(seq, RunColumn))

\* the spec's example: two rows of one owner with a gap between them, then a
\* row of another owner; two intervals, the first spanning the gap
C11_Witness ==
    /\ pc = "prepared"
    /\ Len(df_filtered.rows) = 3
    /\ LET a == df_filtered.rows[1]
           b == df_filtered.rows[2]
           c == df_filtered.rows[3]
       IN  /\ a.pid = b.pid /\ a.pid # c.pid
           /\ Valid(a) /\ Valid(b)
           /\ a.end_ns < b.start_ns /\ b.start_ns < c.start_ns
           /\ Len(df_merged.rows) = 2
           /\ df_merged.rows[1].start_ns = a.start_ns
           /\ df_merged.rows[1].end_ns = b.end_ns
           /\ df_merged.rows[2].start_ns = c.start_ns

----------------------------------------------------------------------------
(* The groups of merge_slices *)

\* rows i and j of the coerced frame fall into the same group of groupby
Grouped(i, j) ==
    LET dfw == WorkingRows(df)
    IN  /\ HasKeyIn(dfw[i], df.cols) /\ HasKeyIn(dfw[j], df.cols)
        /\ GroupKey(dfw[i], df.cols) = GroupKey(dfw[j], df.cols)

SameEntity(a, b) == a.pid = b.pid /\ a.child_index = b.child_index

\* C12: in merge_slices a row whose arrive_ns is missing is grouped only
\* with rows of the same pid and child_index whose arrive_ns is missing too,
\* never with a row that states an arrive_ns; all the missing-arrival rows
\* of one pid and child_index are in one group; and every interval emitted
\* from that group has arrive_ns missing: each valid missing-arrival row is
\* spanned by an output interval of its pid and child_index with arrive_ns
\* missing, and no output interval carries the fill value.
C12_MissingArrivalGroup ==
    (Merged /\ "arrive_ns" \in df.cols) =>
        /\ \A i, j \in 1..Len(df.rows) :
              LET a == df.rows[i]
                  b == df.rows[j]
              IN  /\ (a.arrive_ns = NA /\ Grouped(i, j)) =>
                         (b.arrive_ns = NA /\ SameEntity(a, b))
                  /\ (a.arrive_ns = NA /\ b.arrive_ns = NA /\ SameEntity(a, b)
                        /\ a.pid # NA /\ a.child_index # NA) => Grouped(i, j)
        /\ \A i \in 1..Len(df.rows) :
              LET a == df.rows[i]
              IN  (a.arrive_ns = NA /\ Valid(a) /\ a.pid # NA /\ a.child_index # NA) =>
                      \E k \in 1..Len(ms_out.rows) :
                          LET o == ms_out.rows[k]
                          IN  /\ SameEntity(o, a) /\ o.arrive_ns = NA
                              /\ o.start_ns <= a.start_ns /\ a.end_ns <= o.end_ns
        /\ \A k \in 1..Len(ms_out.rows) : ms_out.rows[k].arrive_ns # Sentinel

\* output interval o carries the key of the group row r of the coerced
\* frame was put in: r's pid and child_index, and r's arrive_ns as filled
\* for grouping and restored on output
InGroupOf(o, r) ==
    /\ SameEntity(o, r)
    /\ o.arrive_ns = RestoreSentinel(FillSentinel(r.arrive_ns))

Spans(o, r) == o.start_ns <= r.start_ns /\ r.end_ns <= o.end_ns

\* C13: merge_slices (on a frame with a grouping column) preserves coverage
\* and invents no endpoint: every input row with start_ns < end_ns lies
\* inside exactly one output interval of its group, and the start_ns of
\* every output interval is the start_ns of a valid input row of its group,
\* its end_ns the end_ns of a valid input row of its group.
C13_CoverageNoInventedEndpoints ==
    (Merged /\ KeyColumns(df.cols) # {}) =>
        /\ \A i \in 1..Len(df.rows) :
              Valid(df.rows[i]) =>
                  Cardinality({k \in 1..Len(ms_out.rows) :
                                  /\ InGroupOf(ms_out.rows[k], df.rows[i])
                                  /\ Spans(ms_out.rows[k], df.rows[i])}) = 1
        /\ \A k \in 1..Len(ms_out.rows) :
              LET o == ms_out.rows[k]
                  valid == {i \in 1..Len(df.rows) :
                              Valid(df.rows[i]) /\ InGroupOf(o, df.rows[i])}
              IN  /\ \E i \in valid : df.rows[i].start_ns = o.start_ns
                  /\ \E i \in valid : df.rows[i].end_ns = o.end_ns

\* a row nested inside an earlier row of its group (the interval keeps the
\* earlier row's end), and a second interval
C13_Witness ==
    /\ pc = "merged"
    /\ Len(df.rows) = 3
    /\ \E i, j \in 1..3 :
          /\ Valid(df.rows[i]) /\ Valid(df.rows[j])
          /\ SameGroup(df.rows[i], df.rows[j])
          /\ df.rows[i].start_ns < df.rows[j].start_ns
          /\ df.rows[j].end_ns < df.rows[i].end_ns
    /\ Len(ms_out.rows) = 2

----------------------------------------------------------------------------
(* The filter and the runs *)

\* row k of the coerced frame starts from the start of a to the start of b
StartsBetween(k, a, b) ==
    a.start_ns <= df.rows[k].start_ns /\ df.rows[k].start_ns <= b.start_ns

\* rows i and j of the coerced frame are retained rows of one owner, and
\* every other row that starts from the one to the other is of that owner
\* or removed by the filter
OnlyRemovedBetween(i, j) ==
    LET a == df.rows[i]
        b == df.rows[j]
    IN  /\ i # j
        /\ Retained(a, max_duration_ns) /\ Retained(b, max_duration_ns)
        /\ SameOwner(a, b, RunColumn)
        /\ a.start_ns <= b.start_ns
        /\ \A k \in 1..Len(df.rows) \ {i, j} :
              StartsBetween(k, a, b) =>
                  \/ SameOwner(a, df.rows[k], RunColumn)
                  \/ ~Retained(df.rows[k], max_duration_ns)

\* the rows of another owner that the filter removed between a and b
RemovedBetween(a, b) ==
    {k \in 1..Len(df.rows) :
        /\ StartsBetween(k, a, b)
        /\ ~Retained(df.rows[k], max_duration_ns)
        /\ ~SameOwner(a, df.rows[k], RunColumn)}

\* the output intervals of a's owner that span both a and b
SpanningBoth(a, b) ==
    {n \in 1..Len(df_merged.rows) :
        /\ Owner(df_merged.rows[n], RunColumn) = Owner(a, RunColumn)
        /\ Spans(df_merged.rows[n], a)
        /\ Spans(df_merged.rows[n], b)}

\* C14 as stated: a row removed by the filter does not separate runs.  Two
\* retained rows of one owner with only rows of that owner or removed rows
\* between them in start_ns order are in one consolidated interval, and that
\* interval covers the time of the removed rows of other owners between them.
C14_RemovedRowsCovered ==
    (Prepared /\ max_duration_ns # None /\ RunColumn # "none") =>
        \A i, j \in 1..Len(df.rows) :
            OnlyRemovedBetween(i, j) =>
                \E n \in SpanningBoth(df.rows[i], df.rows[j]) :
                    \A k \in RemovedBetween(df.rows[i], df.rows[j]) :
                        Spans(df_merged.rows[n], df.rows[k])

\* C14 as amended: a row removed by the filter does not separate runs.  Two
\* retained rows of one owner, with only rows of that owner or removed rows
\* starting from the start_ns of the one to the start_ns of the other, are
\* inside one consolidated interval of their owner.  The interval starts no
\* later than a removed row between them; it covers the removed row's whole
\* time when the rows of the trace have start_ns < end_ns and do not overlap,
\* and a removed row that overlaps the retained rows can end after it.
C14_RemovedRowsNoSeparator ==
    (Prepared /\ max_duration_ns # None /\ RunColumn # "none") =>
        \A i, j \in 1..Len(df.rows) :
            OnlyRemovedBetween(i, j) =>
                \E n \in SpanningBoth(df.rows[i], df.rows[j]) :
                    \A k \in RemovedBetween(df.rows[i], df.rows[j]) :
                        /\ df_merged.rows[n].start_ns <= df.rows[k].start_ns
                        /\ (AllRows(df, Valid) /\ NonOverlapping(df)) =>
                               Spans(df_merged.rows[n], df.rows[k])

\* a long row of another owner between two short rows of one owner, none
\* overlapping: the long row is removed, the short rows come out as one
\* interval over all three
C14_Witness ==
    /\ pc = "prepared"
    /\ max_duration_ns # None
    /\ Len(df.rows) = 3
    /\ AllRows(df, Valid) /\ NonOverlapping(df)
    /\ \E i, j \in 1..3 :
          /\ OnlyRemovedBetween(i, j)
          /\ RemovedBetween(df.rows[i], df.rows[j]) # {}
    /\ Len(df_filtered.rows) = 2
    /\ Len(df_merged.rows) = 1
    /\ df_merged.rows[1].start_ns = MinStart(df)
    /\ df_merged.rows[1].end_ns = MaxEnd(df)

====
